---------------------------- MODULE Spec2Model ----------------------------
(***************************************************************************)
(* A model of src/main.py: AdvancedPDFExtractor (extract, the four         *)
(* text-extraction candidates, _extract_tables, _process_content) and the  *)
(* command-line driver main().                                             *)
(*                                                                         *)
(* The third-party libraries (PyMuPDF, pdfplumber, pypdf, pdf2image,       *)
(* pytesseract, camelot, tabula) are the environment: what they return for *)
(* a page, and whether they raise, is chosen nondeterministically.         *)
(*                                                                         *)
(* Text is a sequence of characters; a character is a one-character string *)
(* except for three non-ASCII characters that are written by name:         *)
(*   "SECT"     U+00A7 SECTION SIGN                                        *)
(*   "YO_YAK"   U+0E22 THAI CHARACTER YO YAK                               *)
(*   "NGO_NGU"  U+0E07 THAI CHARACTER NGO NGU                              *)
(* Line 217 of main.py holds the bytes E0 B8 A2 E0 B8 87, that is the two  *)
(* Thai characters, where a section sign would be expected.                *)
(***************************************************************************)
EXTENDS Integers, Sequences, FiniteSets, TLC

VARIABLES
    pc,                 \* position of main(): "start", "loop", "pages",
                        \* "camelot", "tabula", "process", "output", "done"
    npages,             \* number of pages of the input document
    k,                  \* index into `methods` of the candidate running / next
    page_num,           \* pages the running candidate has consumed
    text_content,       \* the running candidate's local buffer
    results,            \* self.results
    extraction_methods, \* self.extraction_methods
    is_scanned,         \* self.is_scanned
    exit_code,          \* exit status of the process
    output,             \* the output step: "none", "written", "failed"
    started,            \* history: candidates started, in order
    returned,           \* history: their return values, in order
    table_calls,        \* history: table strategies attempted, in order
    entry,              \* history: results / is_scanned when the running
                        \* candidate was started
    line,               \* SpecLines only: a raw line handed to the classifier
    verdict             \* SpecLines only: "unclassified", "header", "body"

vars == <<pc, npages, k, page_num, text_content, results, extraction_methods,
          is_scanned, exit_code, output, started, returned, table_calls,
          entry, line, verdict>>

---------------------------------------------------------------------------
(* Bounds *)

MaxPages == 2

MaxTables == 1

MaxLineLen == 5

---------------------------------------------------------------------------
(* Characters *)

Upper == {"A","B","C","D","E","F","G","H","I","J","K","L","M","N","O","P",
          "Q","R","S","T","U","V","W","X","Y","Z"}

Lower == {"a","b","c","d","e","f","g","h","i","j","k","l","m","n","o","p",
          "q","r","s","t","u","v","w","x","y","z"}

Digit == {"0","1","2","3","4","5","6","7","8","9"}

Roman == {"I","V","X"}

NL == "\n"

\* what str.strip() removes and what \s matches
Whitespace == {" ", "\t", NL}

AllIn(s, i, j, S) == \A n \in i..j : s[n] \in S

---------------------------------------------------------------------------
(* str.strip(), str.split('\n') *)

\* index of the first / last non-whitespace character (0 if there is none)
FirstInk(s) ==
    IF \E i \in 1..Len(s) : s[i] \notin Whitespace
    THEN CHOOSE i \in 1..Len(s) :
            /\ s[i] \notin Whitespace
            /\ \A j \in 1..(i-1) : s[j] \in Whitespace
    ELSE 0

LastInk(s) ==
    IF \E i \in 1..Len(s) : s[i] \notin Whitespace
    THEN CHOOSE i \in 1..Len(s) :
            /\ s[i] \notin Whitespace
            /\ \A j \in (i+1)..Len(s) : s[j] \in Whitespace
    ELSE 0

Strip(s) ==
    IF FirstInk(s) = 0 THEN <<>> ELSE SubSeq(s, FirstInk(s), LastInk(s))

\* text.strip() is truthy
NonBlank(text) == Strip(text) # <<>>

RECURSIVE SplitFrom(_, _, _)
SplitFrom(s, i, cur) ==
    IF i > Len(s) THEN <<cur>>
    ELSE IF s[i] = NL THEN <<cur>> \o SplitFrom(s, i + 1, <<>>)
    ELSE SplitFrom(s, i + 1, Append(cur, s[i]))

SplitLines(text) == SplitFrom(text, 1, <<>>)

---------------------------------------------------------------------------
(* header_patterns, matched with re.match (anchored at the start)          *)

\* ^\s*(?:[A-Z][A-Z\s]+:?\s*)$
MatchAllCaps(s) ==
    \E a \in 0..Len(s) : \E b \in (a+2)..Len(s) :
        /\ AllIn(s, 1, a, Whitespace)
        /\ s[a+1] \in Upper
        /\ AllIn(s, a+2, b, Upper \cup Whitespace)
        /\ \/ AllIn(s, b+1, Len(s), Whitespace)
           \/ /\ b + 1 <= Len(s)
              /\ s[b+1] = ":"
              /\ AllIn(s, b+2, Len(s), Whitespace)

\* ^\s*\d+\.\s+[A-Z][a-zA-Z\s]+
MatchDecimal(s) ==
    \E a \in 0..Len(s) : \E d \in (a+1)..Len(s) : \E w \in (d+2)..Len(s) :
        /\ AllIn(s, 1, a, Whitespace)
        /\ AllIn(s, a+1, d, Digit)
        /\ s[d+1] = "."
        /\ AllIn(s, d+2, w, Whitespace)
        /\ w + 2 <= Len(s)
        /\ s[w+1] \in Upper
        /\ s[w+2] \in Upper \cup Lower \cup Whitespace

\* the two characters the third pattern starts with, as they stand in the file
SectionMark == <<"YO_YAK", "NGO_NGU">>

\* ^\s*<mark>\s*\d+\.\s.*
MatchMarked(mark, s) ==
    LET m == Len(mark) IN
    \E a \in 0..Len(s) : \E b \in (a+m)..Len(s) : \E d \in (b+1)..Len(s) :
        /\ AllIn(s, 1, a, Whitespace)
        /\ a + m <= Len(s)
        /\ SubSeq(s, a+1, a+m) = mark
        /\ AllIn(s, a+m+1, b, Whitespace)
        /\ AllIn(s, b+1, d, Digit)
        /\ d + 2 <= Len(s)
        /\ s[d+1] = "."
        /\ s[d+2] \in Whitespace

\* the third pattern of header_patterns
MatchSection(s) == MatchMarked(SectionMark, s)

\* ^\s*[IVX]+\.\s.*
MatchRoman(s) ==
    \E a \in 0..Len(s) : \E r \in (a+1)..Len(s) :
        /\ AllIn(s, 1, a, Whitespace)
        /\ AllIn(s, a+1, r, Roman)
        /\ r + 2 <= Len(s)
        /\ s[r+1] = "."
        /\ s[r+2] \in Whitespace

\* any(pattern.match(line) for pattern in header_patterns)
IsHeader(s) ==
    MatchAllCaps(s) \/ MatchDecimal(s) \/ MatchSection(s) \/ MatchRoman(s)

---------------------------------------------------------------------------
(* _process_content *)

MainContent == <<"M","a","i","n"," ","C","o","n","t","e","n","t">>

\* headers[key] = value
SetKey(headers, key, value) ==
    [x \in (DOMAIN headers) \cup {key} |->
        IF x = key THEN value ELSE headers[x]]

\* variant: the sentinel branch is taken whenever the cursor is the sentinel
AppendBodyOverwrite(headers, current_header, ln) ==
    IF current_header \in DOMAIN headers /\ current_header # MainContent
    THEN SetKey(headers, current_header, Append(headers[current_header], ln))
    ELSE SetKey(headers, MainContent, <<ln>>)

\* the else branch of the line loop: lines 230-233
AppendBody(headers, current_header, ln) ==
    IF current_header \in DOMAIN headers
    THEN SetKey(headers, current_header, Append(headers[current_header], ln))
    ELSE SetKey(headers, MainContent, <<ln>>)

\* the inner loop over one record's lines; the state carried from line to
\* line is the pair (current_header, headers)
RECURSIVE FoldLines(_, _, _, _)
FoldLines(lines, i, current_header, headers) ==
    IF i > Len(lines) THEN [cur |-> current_header, headers |-> headers]
    ELSE LET ln == Strip(lines[i]) IN
         IF IsHeader(ln)
         THEN FoldLines(lines, i + 1, ln, SetKey(headers, ln, <<>>))
         ELSE FoldLines(lines, i + 1, current_header,
                        AppendBody(headers, current_header, ln))

\* the outer loop over self.results["content"]
RECURSIVE FoldContent(_, _, _, _)
FoldContent(content, i, current_header, headers) ==
    IF i > Len(content) THEN headers
    ELSE LET r == FoldLines(SplitLines(content[i].content), 1,
                            current_header, headers)
         IN FoldContent(content, i + 1, r.cur, r.headers)

\* variant: the sentinel key is inserted before the loop
ProcessedHeadersSeeded(content, headers) ==
    FoldContent(content, 1, MainContent, SetKey(headers, MainContent, <<>>))

ProcessedHeaders(content, headers) ==
    FoldContent(content, 1, MainContent, headers)

---------------------------------------------------------------------------
(* The environment: what the libraries may hand back *)

\* texts a reader may return for one page
PageTexts ==
    { <<>>,                                          \* no text layer
      <<" ", NL>>,                                   \* whitespace only
      \* body line, blank line, heading (padded, with colon), body line
      <<"a", NL, NL, " ", "A", "B", ":", " ", NL, "b">>,
      \* heading first, body line, blank line, Roman-numeral heading
      <<"A", "B", NL, "c", NL, NL, "I", ".", " ", "x">> }

\* number of images pdfplumber reports on one page
ImageCounts == {0, 1}

\* exceptions a library call may raise: class |-> its base classes
ExcKinds == {"Exception", "PdfReadError"}

IsInstance(e, cls) ==
    \/ e = cls
    \/ e = "PdfReadError" /\ cls = "Exception"

\* what a table library may return: each table is empty or not and, for
\* Camelot, carries the page it was found on
TableLists ==
    UNION { [1..n -> [empty : BOOLEAN, page : 1..MaxPages]] : n \in 0..MaxTables }

---------------------------------------------------------------------------
(* AdvancedPDFExtractor *)

NumMethods == 4

MethodName(m) ==
    CASE m = 1 -> "PyMuPDF"
      [] m = 2 -> "PDFPlumber"
      [] m = 3 -> "PyPDF"
      [] m = 4 -> "Tesseract OCR"

\* variant: every candidate tags its records "text"
RecordTypeText(m) == "text"

\* the "type" tag each candidate writes into its records
RecordType(m) == IF m = 4 THEN "ocr_text" ELSE "text"

\* variant: the pypdf candidate has no generic except clause
CatchesReadErrorOnly(m, e) ==
    IF m = 3 THEN IsInstance(e, "PdfReadError")
    ELSE IsInstance(e, "Exception")

\* the except clauses of candidate m catch exception e
Catches(m, e) ==
    IF m = 3 THEN IsInstance(e, "PdfReadError") \/ IsInstance(e, "Exception")
    ELSE IsInstance(e, "Exception")

\* variant: only the native candidate extracts tables
CallsTablesNativeOnly(m) == m = 1

\* candidate m's success path calls self._extract_tables()
CallsTables(m) == m \in {1, 2, 3}

\* variant: the flag is set as soon as OCR has run, whatever it found
ScannedWhenReached(m, ok, cur) == IF m = 4 THEN TRUE ELSE cur

\* self.is_scanned after candidate m has finished with result ok
ScannedAfter(m, ok, cur) == IF m = 4 /\ ok THEN TRUE ELSE cur

\* variant: the loop has no break
NextMethodNoBreak(m, ok) == m + 1

\* `for method in methods: if method(): break`: the index tried after
\* candidate m returned ok (NumMethods + 1: the loop is left)
NextMethod(m, ok) == IF ok THEN NumMethods + 1 ELSE m + 1

\* variant: Tabula is inside Camelot's try block, so a Camelot failure
\* skips it and the candidate returns
AfterCamelotAbort(raised) == IF raised THEN "loop" ELSE "tabula"

\* control after Camelot's try/except: the Tabula block follows either way
AfterCamelot(raised) == "tabula"

EmptyResults ==
    [metadata |-> <<>>, headers |-> <<>>, content |-> <<>>,
     list_items |-> <<>>, tables |-> <<>>, figures |-> <<>>]

Init ==
    /\ pc = "start"
    /\ npages \in 1..MaxPages
    /\ k = 1
    /\ page_num = 0
    /\ text_content = <<>>
    /\ results = EmptyResults
    /\ extraction_methods = <<>>
    /\ is_scanned = FALSE
    /\ exit_code = 0
    /\ output = "none"
    /\ started = <<>>
    /\ returned = <<>>
    /\ table_calls = <<>>
    /\ entry = [results |-> EmptyResults, is_scanned |-> FALSE]
    /\ line = <<>>
    /\ verdict = "unclassified"

classifier == <<line, verdict>>

\* main() line 251 -> extract() line 44: _extract_metadata succeeds
MetadataOk ==
    /\ pc = "start"
    /\ results' = [results EXCEPT !.metadata = [page_count |-> npages]]
    /\ pc' = "loop"
    /\ UNCHANGED <<npages, k, page_num, text_content, extraction_methods,
                   is_scanned, exit_code, output, started, returned,
                   table_calls, entry, classifier>>

\* fitz.open raises in _extract_metadata: nothing catches it before main()
MetadataRaises ==
    /\ pc = "start"
    /\ pc' = "done"
    /\ exit_code' = 1
    /\ UNCHANGED <<npages, k, page_num, text_content, results,
                   extraction_methods, is_scanned, output, started, returned,
                   table_calls, entry, classifier>>

\* the for loop calls methods[k]
StartCandidate ==
    /\ pc = "loop"
    /\ k <= NumMethods
    /\ pc' = "pages"
    /\ page_num' = 0
    /\ text_content' = <<>>
    /\ started' = Append(started, k)
    /\ entry' = [results |-> results, is_scanned |-> is_scanned]
    /\ UNCHANGED <<npages, k, results, extraction_methods, is_scanned,
                   exit_code, output, returned, table_calls, classifier>>

\* the figure records pdfplumber's page.images adds for page p
FiguresOf(m, p, n) ==
    IF m = 2 THEN [i \in 1..n |-> [page |-> p, image |-> i]] ELSE <<>>

\* one iteration of the candidate's page loop
CandidatePage ==
    /\ pc = "pages"
    /\ page_num < npages
    /\ \E text \in PageTexts, n \in ImageCounts :
        /\ text_content' =
              IF NonBlank(text)
              THEN Append(text_content,
                          [page |-> page_num + 1, content |-> text,
                           type |-> RecordType(k)])
              ELSE text_content
        /\ results' = [results EXCEPT
                          !.figures = @ \o FiguresOf(k, page_num + 1, n)]
    /\ page_num' = page_num + 1
    /\ UNCHANGED <<pc, npages, k, extraction_methods, is_scanned, exit_code,
                   output, started, returned, table_calls, entry, classifier>>

\* a library call raises inside the candidate's try block (opening the
\* document, or reading page page_num + 1)
CandidateRaises ==
    /\ pc = "pages"
    /\ page_num < npages
    /\ \E e \in ExcKinds :
        IF Catches(k, e)
        THEN /\ pc' = "loop"
             /\ returned' = Append(returned, FALSE)
             /\ k' = NextMethod(k, FALSE)
             /\ is_scanned' = ScannedAfter(k, FALSE, is_scanned)
             /\ exit_code' = exit_code
        ELSE /\ pc' = "done"
             /\ exit_code' = 1
             /\ UNCHANGED <<returned, k, is_scanned>>
    /\ text_content' = <<>>
    /\ UNCHANGED <<npages, page_num, results, extraction_methods, output,
                   started, table_calls, entry, classifier>>

\* after the page loop: `if text_content:` ... `return False`
CandidateFinish ==
    /\ pc = "pages"
    /\ page_num = npages
    /\ IF text_content # <<>>
       THEN /\ results' = [results EXCEPT !.content = @ \o text_content]
            /\ extraction_methods' = Append(extraction_methods, MethodName(k))
            /\ is_scanned' = ScannedAfter(k, TRUE, is_scanned)
            /\ IF CallsTables(k)
               THEN /\ pc' = "camelot"
                    /\ UNCHANGED <<returned, k>>
               ELSE /\ pc' = "loop"
                    /\ returned' = Append(returned, TRUE)
                    /\ k' = NextMethod(k, TRUE)
       ELSE /\ pc' = "loop"
            /\ returned' = Append(returned, FALSE)
            /\ k' = NextMethod(k, FALSE)
            /\ is_scanned' = ScannedAfter(k, FALSE, is_scanned)
            /\ UNCHANGED <<results, extraction_methods>>
    /\ text_content' = <<>>
    /\ UNCHANGED <<npages, page_num, exit_code, output, started, table_calls,
                   entry, classifier>>

\* records appended for the first n tables of tabs
RECURSIVE CamelotRecords(_, _)
CamelotRecords(tabs, n) ==
    IF n = 0 THEN <<>>
    ELSE CamelotRecords(tabs, n - 1) \o
         (IF tabs[n].empty THEN <<>>
          ELSE << [method |-> "Camelot", page |-> tabs[n].page] >>)

RECURSIVE TabulaRecords(_, _)
TabulaRecords(tabs, n) ==
    IF n = 0 THEN <<>>
    ELSE TabulaRecords(tabs, n - 1) \o
         (IF ~ tabs[n].empty
          THEN << [method |-> "Tabula", page |-> n] >>
          ELSE <<>>)

\* _extract_tables, first try block: camelot returns tabs; with raised, an
\* exception ends the block after n tables have been handled
Camelot ==
    /\ pc = "camelot"
    /\ \E tabs \in TableLists, raised \in BOOLEAN :
       \E n \in (IF raised THEN 0 ELSE Len(tabs))..Len(tabs) :
        /\ \A i \in 1..Len(tabs) : tabs[i].page <= npages
        /\ results' = [results EXCEPT !.tables = @ \o CamelotRecords(tabs, n)]
        /\ table_calls' = Append(table_calls,
                                 [method |-> "Camelot", raised |-> raised])
        /\ pc' = AfterCamelot(raised)
    /\ UNCHANGED <<npages, k, page_num, text_content, extraction_methods,
                   is_scanned, exit_code, output, started, returned, entry,
                   classifier>>

\* _extract_tables, second try block, then the candidate's `return True`
Tabula ==
    /\ pc = "tabula"
    /\ \E tabs \in TableLists, raised \in BOOLEAN :
       \E n \in (IF raised THEN 0 ELSE Len(tabs))..Len(tabs) :
        /\ results' = [results EXCEPT !.tables = @ \o TabulaRecords(tabs, n)]
        /\ table_calls' = Append(table_calls,
                                 [method |-> "Tabula", raised |-> raised])
    /\ pc' = "loop"
    /\ returned' = Append(returned, TRUE)
    /\ k' = NextMethod(k, TRUE)
    /\ UNCHANGED <<npages, page_num, text_content, extraction_methods,
                   is_scanned, exit_code, output, started, entry, classifier>>

\* the for loop is over (break, or methods exhausted): extract() returns
ExtractReturns ==
    /\ pc = "loop"
    /\ k > NumMethods
    /\ pc' = "process"
    /\ UNCHANGED <<npages, k, page_num, text_content, results,
                   extraction_methods, is_scanned, exit_code, output, started,
                   returned, table_calls, entry, classifier>>

\* main() line 252: extractor._process_content()
ProcessContent ==
    /\ pc = "process"
    /\ results' = [results EXCEPT
                      !.headers = ProcessedHeaders(results.content, @)]
    /\ pc' = "output"
    /\ UNCHANGED <<npages, k, page_num, text_content, extraction_methods,
                   is_scanned, exit_code, output, started, returned,
                   table_calls, entry, classifier>>

\* main() lines 254-259: the JSON is written to the file or to stdout
OutputOk ==
    /\ pc = "output"
    /\ output' = "written"
    /\ pc' = "done"
    /\ UNCHANGED <<npages, k, page_num, text_content, results,
                   extraction_methods, is_scanned, exit_code, started,
                   returned, table_calls, entry, classifier>>

\* open() or json.dump raises (an unwritable -o path): lines 261-263
OutputRaises ==
    /\ pc = "output"
    /\ output' = "failed"
    /\ exit_code' = 1
    /\ pc' = "done"
    /\ UNCHANGED <<npages, k, page_num, text_content, results,
                   extraction_methods, is_scanned, started, returned,
                   table_calls, entry, classifier>>

Next ==
    \/ MetadataOk
    \/ MetadataRaises
    \/ StartCandidate
    \/ CandidatePage
    \/ CandidateRaises
    \/ CandidateFinish
    \/ Camelot
    \/ Tabula
    \/ ExtractReturns
    \/ ProcessContent
    \/ OutputOk
    \/ OutputRaises

Spec == Init /\ [][Next]_vars

---------------------------------------------------------------------------
(* The line classifier of _process_content on its own: lines 225-226 *)

LineChars == {"A", "I", "a", "1", ".", ":", " ", "SECT", "YO_YAK", "NGO_NGU"}

BoundedLines == UNION { [1..n -> LineChars] : n \in 0..MaxLineLen }

L_Introduction == <<"1", ".", " ", "I","n","t","r","o","d","u","c","t","i","o","n">>

L_Results == <<"R","E","S","U","L","T","S">>

L_ResultsColon == <<"R","E","S","U","L","T","S",":">>

L_CatSat == <<"t","h","e"," ","c","a","t"," ","s","a","t">>

L_SectionScope == <<"SECT", " ", "1", ".", " ", "S","c","o","p","e">>

ExampleLines ==
    {L_Introduction, L_Results, L_ResultsColon, L_CatSat, L_SectionScope}

InitLines ==
    /\ pc = "start"
    /\ npages = 1
    /\ k = 1
    /\ page_num = 0
    /\ text_content = <<>>
    /\ results = EmptyResults
    /\ extraction_methods = <<>>
    /\ is_scanned = FALSE
    /\ exit_code = 0
    /\ output = "none"
    /\ started = <<>>
    /\ returned = <<>>
    /\ table_calls = <<>>
    /\ entry = [results |-> EmptyResults, is_scanned |-> FALSE]
    /\ line \in BoundedLines \cup ExampleLines
    /\ verdict = "unclassified"

\* line = line.strip(); any(pattern.match(line) ...)
ClassifyLine ==
    /\ verdict = "unclassified"
    /\ verdict' = IF IsHeader(Strip(line)) THEN "header" ELSE "body"
    /\ UNCHANGED <<pc, npages, k, page_num, text_content, results,
                   extraction_methods, is_scanned, exit_code, output, started,
                   returned, table_calls, entry, line>>

NextLines == ClassifyLine

SpecLines == InitLines /\ [][NextLines]_vars

---------------------------------------------------------------------------
(* Properties *)

\* extract() has returned to main()
ExtractDone == pc \in {"process", "output"} \/ (pc = "done" /\ output # "none")

\* _process_content has run
Processed == pc = "output" \/ (pc = "done" /\ output # "none")

\* the metadata reader succeeded
MetadataRead == DOMAIN results.metadata # {}

Succeeded(m) == m <= Len(returned) /\ returned[m]

AnySucceeded == \E m \in 1..Len(returned) : returned[m]

StrategiesTried == [i \in 1..Len(table_calls) |-> table_calls[i].method]

IsPrefix(a, b) == Len(a) <= Len(b) /\ SubSeq(b, 1, Len(a)) = a

\* C1: the candidates are started in the order 1, 2, 3, 4 of `methods`; a
\* candidate is started only when every earlier one returned False; a
\* candidate returns True exactly when it put non-blank page text into
\* content, and after that no further candidate is started; if extract()
\* returns without a success, all four were tried.
C1_FixedOrderFirstSuccess ==
    /\ started = [i \in 1..Len(started) |-> i]
    /\ Len(started) <= NumMethods
    /\ Len(returned) \in {Len(started) - 1, Len(started)}
    /\ \A i \in 1..(Len(started) - 1) : returned[i] = FALSE
    /\ AnySucceeded =>
          /\ results.content # <<>>
          /\ \A i \in 1..Len(results.content) :
                NonBlank(results.content[i].content)
    /\ (~ AnySucceeded /\ pc \notin {"camelot", "tabula"}) =>
          results.content = <<>>
    /\ (ExtractDone /\ ~ AnySucceeded) => Len(started) = NumMethods

C1_Witness ==
    /\ pc = "done"
    /\ started = <<1, 2, 3>>
    /\ returned = <<FALSE, FALSE, TRUE>>

C3_ScannedIffOcrSucceeded ==
    /\ is_scanned => Succeeded(4)
    /\ ExtractDone =>
          /\ is_scanned <=> Succeeded(4)
          /\ is_scanned <=>
                /\ results.content # <<>>
                /\ \A i \in 1..Len(results.content) :
                      results.content[i].type = "ocr_text"

C3_Witness ==
    /\ pc = "done"
    /\ is_scanned
    /\ returned = <<FALSE, FALSE, FALSE, TRUE>>

\* C4: in every state, content is the output of at most one candidate (one
\* entry in extraction_methods, page numbers strictly increasing), and the
\* records' type tags are all "ocr_text" if that candidate is OCR and all
\* "text" otherwise.
C4_SingleProducerTypes ==
    /\ Len(extraction_methods) <= 1
    /\ (results.content = <<>>) <=> (extraction_methods = <<>>)
    /\ \A i \in 1..Len(results.content) : \A j \in 1..Len(results.content) :
          i < j => results.content[i].page < results.content[j].page
    /\ \A i \in 1..Len(results.content) :
          /\ results.content[i].type \in {"text", "ocr_text"}
          /\ results.content[i].type = "ocr_text" <=>
                extraction_methods = <<"Tesseract OCR">>
          /\ results.content[i].type = "text" <=>
                extraction_methods[1] \in {"PyMuPDF", "PDFPlumber", "PyPDF"}
          /\ results.content[i].type = "ocr_text" <=> Len(started) = 4

C4_Witness ==
    /\ pc = "done"
    /\ extraction_methods = <<"Tesseract OCR">>
    /\ Len(results.content) = 2
    /\ results.content[1].type = "ocr_text"

\* C5 (as stated): when a candidate has returned False, results and
\* is_scanned are what they were when it was started.
C5_FailedCandidateLeavesNothing ==
    (pc = "loop" /\ returned # <<>> /\ ~ returned[Len(returned)]) =>
        /\ results = entry.results
        /\ is_scanned = entry.is_scanned

\* C6 (as stated): at the end of a run, if the metadata reader succeeded
\* the output step was reached and the exit code is 0; if it failed no
\* candidate was attempted and the exit code is 1.
C6_ExitZeroUnlessMetadataFails ==
    pc = "done" =>
        IF MetadataRead
        THEN output # "none" /\ exit_code = 0
        ELSE started = <<>> /\ exit_code = 1

\* C6 (amended): at the end of a run, if the metadata reader succeeded the
\* output step was reached whatever the candidates and table strategies did,
\* and the exit code is 0 unless the output step itself raised (then 1); if
\* the metadata reader failed no candidate was attempted, the output step
\* was not reached and the exit code is 1.
C6_ExitReflectsMetadataAndOutput ==
    /\ pc # "done" => exit_code = 0
    /\ pc = "done" =>
        IF MetadataRead
        THEN /\ output \in {"written", "failed"}
             /\ exit_code = (IF output = "written" THEN 0 ELSE 1)
        ELSE /\ started = <<>>
             /\ output = "none"
             /\ exit_code = 1

C6_Witness ==
    /\ pc = "done"
    /\ returned = <<FALSE, FALSE, FALSE, FALSE>>
    /\ results.content = <<>>
    /\ output = "written"
    /\ exit_code = 0

ShapeSection(s) == MatchMarked(<<"SECT">>, s)

HeadingShape(s) ==
    MatchAllCaps(s) \/ MatchDecimal(s) \/ ShapeSection(s) \/ MatchRoman(s)

\* C8 (as stated): a line is classified as a heading exactly when, trimmed,
\* it has one of the four heading shapes (all-caps, decimal-numbered,
\* section-symbol-numbered, Roman-numeral); "1. Introduction", "RESULTS",
\* "RESULTS:" and a section-symbol-numbered line are headings, "the cat sat"
\* and the empty line are not.
C8_HeadingIffShape ==
    verdict # "unclassified" =>
        /\ verdict = "header" <=> HeadingShape(Strip(line))
        /\ line \in {L_Introduction, L_Results, L_ResultsColon,
                     L_SectionScope} => verdict = "header"
        /\ line \in {L_CatSat, <<>>} => verdict = "body"

\* the first trimmed line of the document
FirstLine == Strip(SplitLines(results.content[1].content)[1])

\* C9 (as stated): after the Content Structurer has run on non-empty
\* content, headers holds the key "Main Content".
C9_SentinelAlwaysPresent ==
    (Processed /\ results.content # <<>>) =>
        MainContent \in DOMAIN results.headers

\* C9 (amended): after the Content Structurer has run on non-empty content,
\* headers holds the key "Main Content" exactly when the first trimmed line
\* of the document is not a heading.
C9_SentinelIffFirstLineIsBody ==
    (Processed /\ results.content # <<>>) =>
        (MainContent \in DOMAIN results.headers <=> ~ IsHeader(FirstLine))

C9_Witness ==
    /\ Processed
    /\ results.content # <<>>
    /\ IsHeader(FirstLine)
    /\ MainContent \notin DOMAIN results.headers
    /\ DOMAIN results.headers # {}

\* all trimmed lines of content[i..], in order
RECURSIVE TrimmedLinesFrom(_, _)
TrimmedLinesFrom(content, i) ==
    IF i > Len(content) THEN <<>>
    ELSE LET ls == SplitLines(content[i].content)
         IN [j \in 1..Len(ls) |-> Strip(ls[j])] \o
            TrimmedLinesFrom(content, i + 1)

\* index of the first heading among ls[from..], Len(ls) + 1 if there is none
NextHeading(ls, from) ==
    IF \E i \in from..Len(ls) : IsHeader(ls[i])
    THEN CHOOSE i \in from..Len(ls) :
            IsHeader(ls[i]) /\ \A j \in from..(i - 1) : ~ IsHeader(ls[j])
    ELSE Len(ls) + 1

\* index of the last line equal to heading h
LastOccurrence(ls, h) ==
    CHOOSE i \in 1..Len(ls) :
        ls[i] = h /\ \A j \in (i + 1)..Len(ls) : ls[j] # h

\* C10: after the Content Structurer has run (from an empty mapping), the
\* keys of headers are the heading lines, plus "Main Content" if body lines
\* precede the first heading; the body of "Main Content" is every trimmed
\* line before the first heading, in order, blank lines included as empty
\* strings (none overwritten or dropped); the body of a heading is every
\* trimmed line between its most recent occurrence and the next heading.
C10_BodiesFollowCurrentHeader ==
    Processed =>
        LET ls == TrimmedLinesFrom(results.content, 1)
            hs == {ls[i] : i \in {j \in 1..Len(ls) : IsHeader(ls[j])}}
            first == NextHeading(ls, 1)
        IN /\ DOMAIN results.headers =
                 hs \cup (IF first > 1 THEN {MainContent} ELSE {})
           /\ first > 1 =>
                 results.headers[MainContent] = SubSeq(ls, 1, first - 1)
           /\ \A h \in hs :
                 LET at == LastOccurrence(ls, h)
                 IN results.headers[h] =
                       SubSeq(ls, at + 1, NextHeading(ls, at + 1) - 1)

C10_Witness ==
    /\ Processed
    /\ MainContent \in DOMAIN results.headers
    /\ results.headers[MainContent] = << <<"a">>, <<>> >>
    /\ Cardinality(DOMAIN results.headers) >= 4
    /\ \E h \in DOMAIN results.headers :
          h # MainContent /\ Len(results.headers[h]) >= 2

=============================================================================
